---- MODULE Spec2Model ----
(***************************************************************************)
(* Task lifecycle of the transcription service: the metadata store (Redis  *)
(* keys task:<id>), the cache filesystem, the work queue, the Dispatcher   *)
(* and Access Gateway (app/main.py, one request-serving process), the      *)
(* Worker Executor and the Cache Reaper (tasks/transcription.py).          *)
(*                                                                         *)
(* Time is a discrete clock; one clock unit is the retention window        *)
(* divided by CACHE_EXPIRY_SECONDS.  A JSON null / missing key is "None"   *)
(* for string fields and NoTime for timestamp fields.                      *)
(***************************************************************************)
EXTENDS Integers, FiniteSets, Sequences, TLC

\* ------------------------------------------------------------------ bounds
MaxClock == 3
MaxRedeliver == 1
\* longest s3_results_path string given to an ingress call
MaxPathLen == 3

\* ------------------------------------------------------- program constants
\* retention window (CACHE_EXPIRY), in clock units
CACHE_EXPIRY_SECONDS == 1
\* a timestamp field that is null or missing (falsy for `or` / `if not`)
NoTime == 0

TaskIds == {"t1"}
\* the ids of the specification of the ingress calls, which follows two tasks
IngressTaskIds == {"t1", "t2"}
\* client_id of the ingress calls
Clients == {"alice"}
\* client_id header of the gateway calls: the owner's tag, another client's,
\* or no header at all
Headers == Clients \cup {"bob", "None"}
\* s3_results_path values accepted by validate_s3_settings, or not given
SinkPaths == {"None", "results/a"}
TaskTypes == {"file_upload", "url_download"}

\* files of one task in the cache: <CACHE_DIR>/<saved_filename>,
\* <CACHE_DIR>/<task_id>/ and the two artifacts inside it
FileKinds == {"audio", "dir", "json", "md"}

ActiveStates == {"PENDING_UPLOADED", "PENDING_DOWNLOADED",
                 "PENDING_CELERY_DISPATCH", "PROCESSING", "RETRYING"}
CompletedStates == {"COMPLETED", "COMPLETED_WITH_S3_UPLOAD_FAILURES"}
TerminalStates == CompletedStates \cup {"FAILED"}

\* position of a status in the transition graph of the lifecycle
Rank(s) ==
    CASE s \in {"PENDING_UPLOADED", "PENDING_DOWNLOADED"} -> 1
      [] s = "PENDING_CELERY_DISPATCH" -> 2
      [] s = "PROCESSING" -> 3
      [] s \in TerminalStates -> 4
      [] OTHER -> 0

\* metadata = {} : every key missing
EmptyMetadata ==
    [client_id |-> "None", status |-> "None", s3_results_path |-> "None",
     saved_filename |-> "None", task_type |-> "None",
     upload_time |-> NoTime, download_time |-> NoTime,
     celery_dispatch_time |-> NoTime, celery_task_id |-> "None",
     processing_start_time |-> NoTime, processing_end_time |-> NoTime,
     last_download_time |-> NoTime, last_updated_time |-> NoTime,
     transcribed_json_file |-> "None", transcribed_md_file |-> "None",
     s3_json_url |-> "None", s3_md_url |-> "None",
     error_message |-> "None", worker_node |-> "None"]

VARIABLES
    now,        \* the clock (datetime.utcnow / datetime.now(timezone.utc))
    store,      \* Redis db 0: function from the existing task keys to metadata
    fs,         \* fs[t]: the files of task t that exist in the cache
    created,    \* created[t]: the ingress call that made t: its arguments and
                \* the calls of delay() it made
    queue,      \* queue[t]: deliveries of t's work unit waiting for a worker
    redelivered,\* redelivered[t]: requeues of t's work unit so far
    api,        \* the request the API process is serving
    ex,         \* ex[t]: the worker handling t's work unit
    reaper,     \* the cleanup_expired_tasks run
    CELERY_AVAILABLE, \* main.py: the import of the worker task succeeded
    S3_CONFIGURED,    \* main.py: S3_STORAGE_BUCKET, AWS_ACCESS_KEY_ID and
                      \* AWS_SECRET_ACCESS_KEY are all set
    redis_client      \* main.py: the API process connected to the store at
                      \* start-up (FALSE: redis_client is None)

vars == <<now, store, fs, created, queue, redelivered, api, ex, reaper,
          CELERY_AVAILABLE, S3_CONFIGURED, redis_client>>

ApiIdle == [op |-> "idle"]
ExIdle == [pc |-> "idle"]
\* between sweeps; cleaned: the keys the last sweep removed (its summary)
ReaperIdle == [pc |-> "idle", cleaned |-> {}]

\* the service after start-up; ids: the task ids uuid4 will hand out;
\* clients: whether the API process's connection to the store succeeded
InitTasks(ids, clients) ==
    /\ now = 1
    /\ store = << >>
    /\ fs = [t \in ids |-> {}]
    /\ created = << >>
    /\ queue = [t \in ids |-> 0]
    /\ redelivered = [t \in ids |-> 0]
    /\ api = ApiIdle
    /\ ex = [t \in ids |-> ExIdle]
    /\ reaper = ReaperIdle
    /\ CELERY_AVAILABLE \in BOOLEAN
    /\ S3_CONFIGURED \in BOOLEAN
    /\ redis_client \in clients

Init == InitTasks(TaskIds, {TRUE})

\* redis_client.set(key, json.dumps(metadata))
RedisSet(s, t, md) == [k \in DOMAIN s \cup {t} |-> IF k = t THEN md ELSE s[k]]
\* redis_client.delete(key)
RedisDelete(s, t) == [k \in DOMAIN s \ {t} |-> s[k]]
\* redis_client.get(key) is truthy
RedisHas(s, t) == t \in DOMAIN s

\* time passes.  A clock unit is the retention window, so the clock moves only
\* while nothing short is in progress: the API process and the Reaper are
\* between runs and every worker is waiting for a delivery, inside the
\* transcription pipeline or inside an upload.
Tick ==
    /\ now < MaxClock
    /\ api.op = "idle"
    /\ reaper.pc = "idle"
    /\ \A t \in DOMAIN ex : ex[t].pc \in {"idle", "run", "upload"}
    /\ now' = now + 1
    /\ UNCHANGED <<store, fs, created, queue, redelivered, api, ex, reaper,
                   CELERY_AVAILABLE, S3_CONFIGURED, redis_client>>

\* ------------------------------------------------------------- responses
\* what an API handler returns: the HTTP status code and, for the release
\* handler, the body of its report
Response(req, t, hdr, code) ==
    [op |-> "respond", req |-> req, task |-> t, hdr |-> hdr, code |-> code,
     redis_key_deleted |-> FALSE, errors_deleting_files |-> {},
     deleted_cache_files |-> 0, files_not_found_in_cache |-> 0]

\* A response is sent at once: no worker or Reaper step is placed between a
\* handler's last statement and its return.
Sent == api.op # "respond"

\* the handler's response has been sent; the process serves the next request
ApiReturn ==
    /\ api.op = "respond"
    /\ api' = ApiIdle
    /\ UNCHANGED <<now, store, fs, created, queue, redelivered, ex, reaper,
                   CELERY_AVAILABLE, S3_CONFIGURED, redis_client>>

\* ------------------------------------------------------------ Dispatcher
\* an initial record that is PENDING_UPLOADED whatever the ingress path
InitialMetadataUploaded(c, s3, ty, clock) ==
    [EmptyMetadata EXCEPT
        !.client_id = c, !.status = "PENDING_UPLOADED",
        !.s3_results_path = s3, !.saved_filename = "audio",
        !.upload_time = clock, !.task_type = ty]

\* create_and_dispatch_transcription: the initial record
InitialMetadata(c, s3, ty, clock) ==
    [EmptyMetadata EXCEPT
        !.client_id = c,
        !.status = IF ty = "file_upload" THEN "PENDING_UPLOADED"
                   ELSE "PENDING_DOWNLOADED",
        !.s3_results_path = s3,
        !.saved_filename = "audio",
        !.upload_time = IF ty = "file_upload" THEN clock ELSE NoTime,
        !.download_time = IF ty = "file_upload" THEN NoTime ELSE clock,
        !.task_type = ty]

\* DispatchUpdate that does not record the id delay() returned
DispatchUpdateNoId(md, mode, clock) ==
    IF mode = "ok"
    THEN [md EXCEPT !.status = "PENDING_CELERY_DISPATCH",
                    !.celery_dispatch_time = clock]
    ELSE [md EXCEPT !.status = "FAILED",
                    !.error_message = "Failed to dispatch Celery task",
                    !.celery_dispatch_time = clock]

\* DispatchUpdate that leaves the status alone when the enqueue failed
DispatchUpdateKeepsStatus(md, mode, clock) ==
    IF mode = "ok"
    THEN [md EXCEPT !.status = "PENDING_CELERY_DISPATCH",
                    !.celery_task_id = "celery-id",
                    !.celery_dispatch_time = clock]
    ELSE [md EXCEPT !.error_message = "Failed to dispatch Celery task",
                    !.celery_dispatch_time = clock]

\* dispatch_transcription_task: the record it writes back after the enqueue
\* attempt (mode "ok": delay() returned; "unavailable": the worker task was
\* not imported; "raise": delay() raised)
DispatchUpdate(md, mode, clock) ==
    CASE mode = "ok" ->
            [md EXCEPT !.status = "PENDING_CELERY_DISPATCH",
                       !.celery_task_id = "celery-id",
                       !.celery_dispatch_time = clock]
      [] mode = "unavailable" ->
            [md EXCEPT !.status = "FAILED",
                       !.error_message = "Celery worker not available",
                       !.celery_dispatch_time = clock]
      [] OTHER ->
            [md EXCEPT !.status = "FAILED",
                       !.error_message = "Failed to dispatch Celery task",
                       !.celery_dispatch_time = clock]

\* dispatch_transcription_task: how the enqueue attempt goes
EnqueueMode(available, delayRaises) ==
    IF ~available THEN "unavailable"
    ELSE IF delayRaises THEN "raise" ELSE "ok"

\* a delay() that raised is called again
DelayCallsWithRetry(mode) ==
    IF mode = "unavailable" THEN 0 ELSE IF mode = "raise" THEN 2 ELSE 1

\* dispatch_transcription_task: the calls of transcribe_audio_task.delay() it
\* makes: none when the worker task was not imported, else one, in a try with
\* no loop around it
DelayCalls(mode) == IF mode = "unavailable" THEN 0 ELSE 1

\* create_and_dispatch_transcription, up to the call of
\* dispatch_transcription_task: the initial record is written when the
\* process has a store client.  created[t] keeps the arguments of the call
\* and how its enqueue attempt goes.
CreateAndDispatch(t, c, s3, ty, delayRaises) ==
    LET mode == EnqueueMode(CELERY_AVAILABLE, delayRaises) IN
    /\ created' = [k \in DOMAIN created \cup {t} |->
                     IF k = t THEN [client_id |-> c, s3_results_path |-> s3,
                                    task_type |-> ty, enqueue |-> mode,
                                    delay_calls |-> DelayCalls(mode)]
                     ELSE created[k]]
    /\ store' = IF redis_client
                THEN RedisSet(store, t, InitialMetadata(c, s3, ty, now))
                ELSE store
    /\ queue' = queue
    /\ api' = [op |-> "dispatch", pc |-> "delay", task |-> t,
               mode |-> mode, md |-> EmptyMetadata]

\* transcribe_file / transcribe_url_endpoint, accepted: the checks passed
\* (validate_s3_settings: a sink needs object storage configured), a fresh
\* task id, the source audio saved in the cache, then
\* create_and_dispatch_transcription
Ingress(t, c, s3, ty, delayRaises) ==
    /\ api.op = "idle"
    /\ t \notin DOMAIN created
    /\ fs[t] = {}
    /\ s3 = "None" \/ S3_CONFIGURED
    /\ fs' = [fs EXCEPT ![t] = @ \cup {"audio"}]
    /\ CreateAndDispatch(t, c, s3, ty, delayRaises)
    /\ UNCHANGED <<now, redelivered, ex, reaper, CELERY_AVAILABLE,
                   S3_CONFIGURED, redis_client>>

\* `".." in s3_results_path`
HasParentSegment(path) ==
    \E i \in 1..(Len(path) - 1) : path[i] = "." /\ path[i + 1] = "."

\* validate_s3_settings: the HTTP status it raises, 200 when it returns.  The
\* path is a string of characters, the empty string for a path not given.
validate_s3_settings(path, configured) ==
    IF path = << >> THEN 200
    ELSE IF ~configured THEN 501
    ELSE IF path[1] = "/" \/ path[Len(path)] = "/" \/ HasParentSegment(path)
    THEN 400
    ELSE 200

\* the checks of an ingress handler that end with an exception before a task
\* id exists, in the handler's order; 200 when all pass.  In
\* transcribe_url_endpoint the 415 of the content-type check is raised inside
\* the try and leaves as the 500 of `except Exception`.
IngressCheck(endpoint, hdr, wav, path, configured) ==
    IF hdr = "None" THEN 400
    ELSE IF endpoint = "transcribe" /\ ~wav THEN 415
    ELSE IF validate_s3_settings(path, configured) # 200
    THEN validate_s3_settings(path, configured)
    ELSE IF endpoint = "transcribe_url" /\ ~wav THEN 500
    ELSE 200

\* an ingress call that a check rejects
IngressRejected(endpoint, hdr, wav, path) ==
    /\ api.op = "idle"
    /\ IngressCheck(endpoint, hdr, wav, path, S3_CONFIGURED) # 200
    /\ api' = Response("ingress", "None", hdr,
                       IngressCheck(endpoint, hdr, wav, path, S3_CONFIGURED))
    /\ UNCHANGED <<now, store, fs, created, queue, redelivered, ex, reaper,
                   CELERY_AVAILABLE, S3_CONFIGURED, redis_client>>

\* the HTTP status of an ingress call whose fetch of the source audio fails:
\* transcribe_url_endpoint (httpx timeout, error status of the remote server,
\* connection error) and transcribe_s3_endpoint (NoSuchKey, NoSuchBucket,
\* another ClientError, missing credentials, anything else)
FetchFailureCode(endpoint, cause) ==
    IF endpoint = "transcribe_url"
    THEN CASE cause = "timeout" -> 408
           [] cause = "http_error" -> 404
           [] OTHER -> 503
    ELSE CASE cause \in {"NoSuchKey", "NoSuchBucket"} -> 404
           [] cause \in {"ClientError", "credentials"} -> 503
           [] OTHER -> 500

\* the causes of a failed fetch, by endpoint
FetchFailures(endpoint) ==
    IF endpoint = "transcribe_url"
    THEN {"timeout", "http_error", "request_error"}
    ELSE {"NoSuchKey", "NoSuchBucket", "ClientError", "credentials", "other"}

\* a failed fetch that leaves the initial record of the task behind
FetchFailsAfterCreate(t, endpoint, c, s3, cause) ==
    /\ api.op = "idle"
    /\ t \notin DOMAIN created
    /\ fs[t] = {}
    /\ cause \in FetchFailures(endpoint)
    /\ store' = RedisSet(store, t, InitialMetadata(c, s3, "url_download", now))
    /\ api' = Response("ingress", t, c, FetchFailureCode(endpoint, cause))
    /\ UNCHANGED <<now, fs, created, queue, redelivered, ex, reaper,
                   CELERY_AVAILABLE, S3_CONFIGURED, redis_client>>

\* transcribe_url_endpoint / transcribe_s3_endpoint: the first checks passed,
\* a task id was drawn, and the fetch of the source audio fails: the matching
\* except branch raises the HTTPException; nothing was written
FetchFails(t, endpoint, c, s3, cause) ==
    /\ api.op = "idle"
    /\ t \notin DOMAIN created
    /\ fs[t] = {}
    /\ s3 = "None" \/ S3_CONFIGURED
    /\ cause \in FetchFailures(endpoint)
    /\ api' = Response("ingress", t, c, FetchFailureCode(endpoint, cause))
    /\ UNCHANGED <<now, store, fs, created, queue, redelivered, ex, reaper,
                   CELERY_AVAILABLE, S3_CONFIGURED, redis_client>>

\* transcribe_s3_endpoint after its first checks: a fresh task id, and
\* s3_client.download_file puts the object in the cache
S3IngressFetch(t, c, s3, wav) ==
    /\ api.op = "idle"
    /\ S3_CONFIGURED
    /\ t \notin DOMAIN created
    /\ fs[t] = {}
    /\ fs' = [fs EXCEPT ![t] = @ \cup {"audio"}]
    /\ api' = [op |-> "s3_ingress", pc |-> "check", task |-> t,
               client_id |-> c, s3_results_path |-> s3, wav |-> wav]
    /\ UNCHANGED <<now, store, created, queue, redelivered, ex, reaper,
                   CELERY_AVAILABLE, S3_CONFIGURED, redis_client>>

\* transcribe_s3_endpoint: the extension check.  A key that does not end with
\* .wav: os.remove of the downloaded file (which may raise OSError), then the
\* 415, both leaving as the 500 of `except Exception`; otherwise
\* create_and_dispatch_transcription
S3IngressCheck(removeFails, delayRaises) ==
    /\ api.op = "s3_ingress"
    /\ IF api.wav
       THEN /\ fs' = fs
            /\ CreateAndDispatch(api.task, api.client_id, api.s3_results_path,
                                 "s3_download", delayRaises)
       ELSE /\ fs' = [fs EXCEPT ![api.task] =
                        IF removeFails THEN @ ELSE @ \ {"audio"}]
            /\ api' = Response("ingress", api.task, api.client_id, 500)
            /\ UNCHANGED <<store, created, queue>>
    /\ UNCHANGED <<now, redelivered, ex, reaper, CELERY_AVAILABLE,
                   S3_CONFIGURED, redis_client>>

\* dispatch_transcription_task: transcribe_audio_task.delay(...), which puts
\* the work unit in the queue unless the worker task was not imported or the
\* call raises
DispatchDelay ==
    /\ api.op = "dispatch" /\ api.pc = "delay"
    /\ queue' = [queue EXCEPT ![api.task] =
                   IF api.mode = "ok" THEN @ + 1 ELSE @]
    /\ api' = [api EXCEPT !.pc = "get"]
    /\ UNCHANGED <<now, store, fs, created, redelivered, ex, reaper,
                   CELERY_AVAILABLE, S3_CONFIGURED, redis_client>>

\* dispatch_transcription_task: `if redis_client:` and
\* raw_metadata = redis_client.get(metadata_key)
DispatchGet ==
    /\ api.op = "dispatch" /\ api.pc = "get"
    /\ IF redis_client /\ RedisHas(store, api.task)
       THEN api' = [api EXCEPT !.pc = "set", !.md = store[api.task]]
       ELSE api' = Response("ingress", api.task, created[api.task].client_id, 200)
    /\ UNCHANGED <<now, store, fs, created, queue, redelivered, ex, reaper,
                   CELERY_AVAILABLE, S3_CONFIGURED, redis_client>>

\* dispatch_transcription_task: redis_client.set(metadata_key, ...), and the
\* handler returns {"task_id": task_id}
DispatchSet ==
    /\ api.op = "dispatch" /\ api.pc = "set"
    /\ store' = RedisSet(store, api.task, DispatchUpdate(api.md, api.mode, now))
    /\ api' = Response("ingress", api.task, created[api.task].client_id, 200)
    /\ UNCHANGED <<now, fs, created, queue, redelivered, ex, reaper,
                   CELERY_AVAILABLE, S3_CONFIGURED, redis_client>>

\* -------------------------------------------------------- Worker Executor
\* metadata.update(updates)
Merge(md, updates) ==
    [k \in DOMAIN md |-> IF k \in DOMAIN updates THEN updates[k] ELSE md[k]]

\* an update that writes its own fields onto an empty document
UpdatedMetadataFromScratch(md, updates, clock) ==
    [Merge(EmptyMetadata, updates) EXCEPT !.last_updated_time = clock]

\* update_redis_metadata, after the get: metadata.update(updates), the
\* last_updated_time stamp, and the document that is set
UpdatedMetadata(md, updates, clock) ==
    [Merge(md, updates) EXCEPT !.last_updated_time = clock]

\* the worker's local state in transcribe_audio_task: where it is, the
\* metadata and updates of the update_redis_metadata call in progress, and
\* the two upload results
ExState(pc, md, updates, ju, mu) ==
    [pc |-> pc, md |-> md, updates |-> updates,
     s3_json_url |-> ju, s3_md_url |-> mu]

\* a first update that marks the handling of a delivery as a retry
ProcessingUpdatesRetrying(clock) ==
    [status |-> "RETRYING", celery_task_id |-> "celery-id",
     processing_start_time |-> clock, worker_node |-> "worker"]

\* transcribe_audio_task: the updates of the first update_redis_metadata call
ProcessingUpdates(clock) ==
    [status |-> "PROCESSING", celery_task_id |-> "celery-id",
     processing_start_time |-> clock, worker_node |-> "worker"]

\* transcribe_audio_task: the artifact paths, relative to CACHE_DIR
PathUpdates ==
    [transcribed_json_file |-> "json", transcribed_md_file |-> "md"]

\* final_status that does not look at the uploads
FinalStatusIgnoresUploads(sink, ju, mu) == "COMPLETED"

\* transcribe_audio_task: final_status
FinalStatus(sink, ju, mu) ==
    IF sink # "None" /\ ~(ju # "None" /\ mu # "None")
    THEN "COMPLETED_WITH_S3_UPLOAD_FAILURES"
    ELSE "COMPLETED"

FinalUpdates(sink, ju, mu, clock) ==
    [status |-> FinalStatus(sink, ju, mu), processing_end_time |-> clock]

\* the failure update without the message
FailedUpdatesNoMessage(msg, clock) ==
    [status |-> "FAILED", error_message |-> "None",
     processing_end_time |-> clock]

\* transcribe_audio_task: the updates of both except branches
FailedUpdates(msg, clock) ==
    [status |-> "FAILED", error_message |-> msg, processing_end_time |-> clock]

\* redis_client.get(task_key), or {} when the key is absent
GetOrEmpty(s, t) == IF RedisHas(s, t) THEN s[t] ELSE EmptyMetadata

\* update_redis_metadata up to and including the get
BeginUpdate(t, pc, updates, ju, mu) ==
    ex' = [ex EXCEPT ![t] = ExState(pc, GetOrEmpty(store, t), updates, ju, mu)]

\* a worker takes a delivery of t's work unit: the handler starts, and its
\* first update_redis_metadata call reads the record
ExStart(t) ==
    /\ Sent
    /\ ex[t].pc = "idle"
    /\ queue[t] > 0
    /\ queue' = [queue EXCEPT ![t] = @ - 1]
    /\ BeginUpdate(t, "proc_set", ProcessingUpdates(now), "None", "None")
    /\ UNCHANGED <<now, store, fs, created, redelivered, api, reaper,
                   CELERY_AVAILABLE, S3_CONFIGURED, redis_client>>

\* where the handler goes after the set of an update_redis_metadata call
AfterSet(pc, sink) ==
    CASE pc = "proc_set" -> "mkdir"
      [] pc = "paths_set" -> IF sink # "None" THEN "upload" ELSE "final_get"
      [] pc = "s3_set" -> "final_get"
      [] OTHER -> "ack"

\* update_redis_metadata: redis_client.set(task_key, json.dumps(metadata))
ExUpdateSet(t) ==
    /\ Sent
    /\ ex[t].pc \in {"proc_set", "paths_set", "s3_set", "final_set", "fail_set"}
    /\ store' = RedisSet(store, t, UpdatedMetadata(ex[t].md, ex[t].updates, now))
    /\ ex' = [ex EXCEPT ![t] =
                ExState(AfterSet(ex[t].pc, created[t].s3_results_path),
                        EmptyMetadata, << >>,
                        ex[t].s3_json_url, ex[t].s3_md_url)]
    /\ UNCHANGED <<now, fs, created, queue, redelivered, api, reaper,
                   CELERY_AVAILABLE, S3_CONFIGURED, redis_client>>

\* os.makedirs(task_output_cache_dir, exist_ok=True); an OSError here is
\* outside the try block and ends the handler
ExMkdir(t, ok) ==
    /\ Sent
    /\ ex[t].pc = "mkdir"
    /\ IF ok
       THEN /\ fs' = [fs EXCEPT ![t] = @ \cup {"dir"}]
            /\ ex' = [ex EXCEPT ![t].pc = "run"]
       ELSE /\ fs' = fs
            /\ ex' = [ex EXCEPT ![t].pc = "ack"]
    /\ UNCHANGED <<now, store, created, queue, redelivered, api, reaper,
                   CELERY_AVAILABLE, S3_CONFIGURED, redis_client>>

\* the except branches: update_redis_metadata(FAILED ...) reads the record
Fail(t, msg) ==
    BeginUpdate(t, "fail_set", FailedUpdates(msg, now), "None", "None")

\* the os.path.exists check of the source audio and the transcription
\* pipeline (VideoTranscriber), which returns or raises
ExRun(t, pipelineOk) ==
    /\ Sent
    /\ ex[t].pc = "run"
    /\ IF "audio" \notin fs[t]
       THEN Fail(t, "Input audio file not found")
       ELSE IF pipelineOk
            THEN ex' = [ex EXCEPT ![t].pc = "write_json"]
            ELSE Fail(t, "pipeline error")
    /\ UNCHANGED <<now, store, fs, created, queue, redelivered, api, reaper,
                   CELERY_AVAILABLE, S3_CONFIGURED, redis_client>>

\* with open(path, "w") as f: write.  open raises FileNotFoundError when the
\* task directory is gone and may raise OSError otherwise ("open_fails"); the
\* write may raise after open created the file ("write_fails")
ExWrite(t, kind, outcome) ==
    /\ Sent
    /\ ex[t].pc = (IF kind = "json" THEN "write_json" ELSE "write_md")
    /\ IF "dir" \notin fs[t]
       THEN /\ fs' = fs
            /\ Fail(t, "No such file or directory")
       ELSE CASE outcome = "ok" ->
                    /\ fs' = [fs EXCEPT ![t] = @ \cup {kind}]
                    /\ ex' = [ex EXCEPT ![t].pc =
                                IF kind = "json" THEN "write_md" ELSE "paths_get"]
              [] outcome = "write_fails" ->
                    /\ fs' = [fs EXCEPT ![t] = @ \cup {kind}]
                    /\ Fail(t, "write error")
              [] OTHER ->
                    /\ fs' = fs
                    /\ Fail(t, "open error")
    /\ UNCHANGED <<now, store, created, queue, redelivered, api, reaper,
                   CELERY_AVAILABLE, S3_CONFIGURED, redis_client>>

\* update_redis_metadata(task_id, {artifact paths}) up to the get
ExPathsGet(t) ==
    /\ Sent
    /\ ex[t].pc = "paths_get"
    /\ BeginUpdate(t, "paths_set", PathUpdates, "None", "None")
    /\ UNCHANGED <<now, store, fs, created, queue, redelivered, api, reaper,
                   CELERY_AVAILABLE, S3_CONFIGURED, redis_client>>

\* upload_to_s3 of both artifacts: each returns the object URL or None (it
\* catches every error; a missing local file is one of them), then
\* update_redis_metadata({s3_json_url, s3_md_url}) up to the get
ExUpload(t, jsonOk, mdOk) ==
    /\ Sent
    /\ ex[t].pc = "upload"
    /\ LET ju == IF jsonOk /\ "json" \in fs[t] THEN "s3://json" ELSE "None"
           mu == IF mdOk /\ "md" \in fs[t] THEN "s3://md" ELSE "None"
       IN BeginUpdate(t, "s3_set", [s3_json_url |-> ju, s3_md_url |-> mu], ju, mu)
    /\ UNCHANGED <<now, store, fs, created, queue, redelivered, api, reaper,
                   CELERY_AVAILABLE, S3_CONFIGURED, redis_client>>

\* update_redis_metadata(task_id, {status: final_status, ...}) up to the get
ExFinalGet(t) ==
    /\ Sent
    /\ ex[t].pc = "final_get"
    /\ BeginUpdate(t, "final_set",
                   FinalUpdates(created[t].s3_results_path,
                                ex[t].s3_json_url, ex[t].s3_md_url, now),
                   ex[t].s3_json_url, ex[t].s3_md_url)
    /\ UNCHANGED <<now, store, fs, created, queue, redelivered, api, reaper,
                   CELERY_AVAILABLE, S3_CONFIGURED, redis_client>>

\* the handler has returned or raised; the delivery is acknowledged
\* (task_acks_late)
ExAck(t) ==
    /\ Sent
    /\ ex[t].pc = "ack"
    /\ ex' = [ex EXCEPT ![t] = ExIdle]
    /\ UNCHANGED <<now, store, fs, created, queue, redelivered, api, reaper,
                   CELERY_AVAILABLE, S3_CONFIGURED, redis_client>>

\* the worker is lost before the acknowledgement: the delivery is requeued
\* (task_reject_on_worker_lost) and the handler will run again
WorkerLost(t) ==
    /\ Sent
    /\ ex[t].pc # "idle"
    /\ redelivered[t] < MaxRedeliver
    /\ ex' = [ex EXCEPT ![t] = ExIdle]
    /\ queue' = [queue EXCEPT ![t] = @ + 1]
    /\ redelivered' = [redelivered EXCEPT ![t] = @ + 1]
    /\ UNCHANGED <<now, store, fs, created, api, reaper,
                   CELERY_AVAILABLE, S3_CONFIGURED, redis_client>>

\* --------------------------------------------------------- Access Gateway
\* metadata.get(key): None for a key the document does not have
MetadataGet(md, key) == IF key \in DOMAIN md THEN md[key] ELSE "None"

\* AccessCheck without the comparison of the owner tag
AccessCheckNoOwner(s, t, hdr) == IF ~RedisHas(s, t) THEN 404 ELSE 200

\* AccessCheck that refuses a request without an owner tag
AccessCheckTagRequired(s, t, hdr) ==
    IF ~redis_client THEN 503
    ELSE IF ~RedisHas(s, t) THEN 404
    ELSE IF hdr = "None" \/ MetadataGet(s[t], "client_id") # hdr THEN 403
    ELSE 200

\* the checks every gateway handler starts with: no store client (503), the
\* key is fetched (absent: 404), then a supplied client_id header is compared
\* with the record's (403)
AccessCheck(s, t, hdr) ==
    IF ~redis_client THEN 503
    ELSE IF ~RedisHas(s, t) THEN 404
    ELSE IF hdr # "None" /\ MetadataGet(s[t], "client_id") # hdr THEN 403
    ELSE 200

\* get_task_status
GetTaskStatus(t, hdr) ==
    /\ api.op = "idle"
    /\ api' = Response("status", t, hdr, AccessCheck(store, t, hdr))
    /\ UNCHANGED <<now, store, fs, created, queue, redelivered, ex, reaper,
                   CELERY_AVAILABLE, S3_CONFIGURED, redis_client>>

\* queued_tasks that counts every key
QueuedTasksAllKeys(s) == Cardinality(DOMAIN s)

\* get_queue_status: queued_tasks, one for each listed key whose record is
\* read and has its status in active_states
QueuedTasks(s) ==
    Cardinality({t \in DOMAIN s : MetadataGet(s[t], "status") \in ActiveStates})

\* get_queue_status: 503 without a store client, else the number of records
\* whose status is in active_states and the number of keys
GetQueueStatus ==
    /\ api.op = "idle"
    /\ api' = [op |-> "respond", req |-> "queue", task |-> "None",
               hdr |-> "None",
               code |-> IF redis_client THEN 200 ELSE 503,
               active_tasks_in_queue |->
                   IF redis_client THEN QueuedTasks(store) ELSE 0,
               total_tracked_tasks |->
                   IF redis_client THEN Cardinality(DOMAIN store) ELSE 0]
    /\ UNCHANGED <<now, store, fs, created, queue, redelivered, ex, reaper,
                   CELERY_AVAILABLE, S3_CONFIGURED, redis_client>>

\* DownloadCheck without the s3_results_path check
DownloadCheckNoSink(md, fmt, files) ==
    IF MetadataGet(md, "status") # "COMPLETED" THEN 400
    ELSE IF MetadataGet(md, IF fmt = "json" THEN "transcribed_json_file"
                            ELSE "transcribed_md_file") \notin files THEN 404
    ELSE 200

\* download_transcription_file after the access checks: the sink check, the
\* status check, the path lookup and the os.path.exists check
DownloadCheck(md, fmt, files) ==
    IF MetadataGet(md, "s3_results_path") # "None" THEN 400
    ELSE IF MetadataGet(md, "status") # "COMPLETED" THEN 400
    ELSE IF MetadataGet(md, IF fmt = "json" THEN "transcribed_json_file"
                            ELSE "transcribed_md_file") = "None" THEN 404
    ELSE IF MetadataGet(md, IF fmt = "json" THEN "transcribed_json_file"
                            ELSE "transcribed_md_file") \notin files THEN 404
    ELSE 200

\* download_transcription_file up to the last check: rejected, or the
\* metadata read stays in hand for the last_download_time stamp
DownloadGet(t, fmt, hdr) ==
    /\ api.op = "idle"
    /\ LET access == AccessCheck(store, t, hdr)
           code == IF access # 200 THEN access
                   ELSE DownloadCheck(store[t], fmt, fs[t])
       IN IF code = 200
          THEN api' = [op |-> "download", pc |-> "set", task |-> t,
                       hdr |-> hdr, md |-> store[t]]
          ELSE api' = Response("download", t, hdr, code)
    /\ UNCHANGED <<now, store, fs, created, queue, redelivered, ex, reaper,
                   CELERY_AVAILABLE, S3_CONFIGURED, redis_client>>

\* download_transcription_file: metadata["last_download_time"] = now;
\* redis_client.set(task_key, json.dumps(metadata)); the file is returned
DownloadSet ==
    /\ api.op = "download" /\ api.pc = "set"
    /\ store' = RedisSet(store, api.task,
                         [api.md EXCEPT !.last_download_time = now])
    /\ api' = Response("download", api.task, api.hdr, 200)
    /\ UNCHANGED <<now, fs, created, queue, redelivered, ex, reaper,
                   CELERY_AVAILABLE, S3_CONFIGURED, redis_client>>

\* files_to_delete with the source audio of sink tasks too
ReleaseTargetsWithAudio(md) ==
    (IF MetadataGet(md, "saved_filename") # "None"
     THEN {MetadataGet(md, "saved_filename")} ELSE {})
    \cup (IF MetadataGet(md, "transcribed_json_file") # "None"
          THEN {MetadataGet(md, "transcribed_json_file")} ELSE {})
    \cup (IF MetadataGet(md, "transcribed_md_file") # "None"
          THEN {MetadataGet(md, "transcribed_md_file")} ELSE {})

\* release_task_resources: files_to_delete
ReleaseTargets(md) ==
    (IF MetadataGet(md, "saved_filename") # "None"
        /\ MetadataGet(md, "s3_results_path") = "None"
     THEN {MetadataGet(md, "saved_filename")} ELSE {})
    \cup (IF MetadataGet(md, "transcribed_json_file") # "None"
          THEN {MetadataGet(md, "transcribed_json_file")} ELSE {})
    \cup (IF MetadataGet(md, "transcribed_md_file") # "None"
          THEN {MetadataGet(md, "transcribed_md_file")} ELSE {})

\* the key never deleted
ReleaseDeletesKeyNever(errored) == FALSE

\* the key deleted whatever the deletions did
ReleaseDeletesKeyAlways(errored) == TRUE

\* release_task_resources: the key is deleted when no deletion raised
ReleaseDeletesKey(errored) == errored = {}

\* deleted_files_count that counts the files whose deletion raised too
ReleaseDeletedWithErrored(present, errored) == present

\* release_task_resources: the files counted in deleted_files_count, those
\* that exist and whose os.remove returns
ReleaseDeleted(present, errored) == present \ errored

\* release_task_resources; os.remove raises OSError for the files in
\* undeletable
Release(t, hdr, undeletable) ==
    /\ api.op = "idle"
    /\ LET access == AccessCheck(store, t, hdr) IN
       IF access # 200
       THEN /\ api' = Response("release", t, hdr, access)
            /\ UNCHANGED <<store, fs>>
       ELSE LET targets == ReleaseTargets(store[t])
                present == targets \cap fs[t]
                errored == present \cap undeletable
                removed == ReleaseDeleted(present, errored)
            IN /\ fs' = [fs EXCEPT ![t] = @ \ removed]
               /\ store' = IF ReleaseDeletesKey(errored)
                           THEN RedisDelete(store, t) ELSE store
               /\ api' = [Response("release", t, hdr, 200) EXCEPT
                            !.redis_key_deleted = ReleaseDeletesKey(errored),
                            !.errors_deleting_files = errored,
                            !.deleted_cache_files = Cardinality(removed),
                            !.files_not_found_in_cache =
                                Cardinality(targets \ present)]
    /\ UNCHANGED <<now, created, queue, redelivered, ex, reaper,
                   CELERY_AVAILABLE, S3_CONFIGURED, redis_client>>

\* ------------------------------------------------------------ Cache Reaper
\* cleanup_expired_tasks: timestamp_str, by status (`a or b or c`)
FirstTime(times) ==
    IF \E i \in 1..Len(times) : times[i] # NoTime
    THEN times[CHOOSE i \in 1..Len(times) :
                 /\ times[i] # NoTime
                 /\ \A j \in 1..(i - 1) : times[j] = NoTime]
    ELSE NoTime

\* the timestamp is last_updated_time whatever the status
ReaperTimestampLastUpdate(md) == md.last_updated_time

\* cleanup_expired_tasks: the timestamp selected for the record's status
ReaperTimestamp(md) ==
    IF md.status = "FAILED"
    THEN FirstTime(<<md.processing_end_time, md.last_updated_time>>)
    ELSE IF md.status \in {"COMPLETED", "COMPLETED_WITH_S3_UPLOAD_FAILURES"}
    THEN FirstTime(<<md.last_download_time, md.processing_end_time,
                     md.last_updated_time>>)
    ELSE FirstTime(<<md.upload_time, md.download_time,
                     md.celery_dispatch_time, md.last_updated_time>>)

\* a task expires when its age reaches the window
ExpiredAtWindow(ts, clock) == clock - ts >= CACHE_EXPIRY_SECONDS

\* datetime.now(timezone.utc) - task_timestamp > timedelta(seconds=CACHE_EXPIRY_SECONDS)
Expired(ts, clock) == clock - ts > CACHE_EXPIRY_SECONDS

\* cleanup_expired_tasks: files_to_attempt_delete
ReaperTargets(md) ==
    (IF MetadataGet(md, "s3_path") = "None"
        /\ MetadataGet(md, "saved_filename") # "None"
     THEN {MetadataGet(md, "saved_filename")} ELSE {})
    \cup (IF MetadataGet(md, "transcribed_json_file") # "None"
          THEN {MetadataGet(md, "transcribed_json_file")} ELSE {})
    \cup (IF MetadataGet(md, "transcribed_md_file") # "None"
          THEN {MetadataGet(md, "transcribed_md_file")} ELSE {})

\* a task is skipped only when its timestamp is inside the window
ReaperSkipsFreshOnly(ts, clock) == ~(clock - ts > CACHE_EXPIRY_SECONDS)

\* cleanup_expired_tasks: the task is left alone when it has no timestamp
\* (`if not timestamp_str: continue`) or its age does not exceed the window
ReaperSkips(ts, clock) == ts = NoTime \/ ~Expired(ts, clock)

\* the key deleted whatever current_task_failed_deletions is
ReaperDeletesKeyAlways(failed) == TRUE

\* cleanup_expired_tasks: the key is deleted when
\* current_task_failed_deletions == 0
ReaperDeletesKey(failed) == failed = 0

\* the files inside <CACHE_DIR>/<task_id>/
InDir(files) == files \cap {"json", "md"}

\* redis_client.keys("task:*")
TaskKeys(s) == DOMAIN s

\* cleanup_expired_tasks: the sweep starts and lists the keys.  before: the
\* summary of the previous sweep; listed: the keys found; keys: those still to
\* handle; failed: current_task_failed_deletions of each key handled;
\* cleaned: the keys removed so far (cleaned_tasks_count)
SweepStart ==
    /\ Sent
    /\ reaper.pc = "idle"
    /\ reaper' = [pc |-> "loop", before |-> reaper.cleaned,
                   listed |-> TaskKeys(store), keys |-> TaskKeys(store),
                   failed |-> << >>, cleaned |-> {}]
    /\ UNCHANGED <<now, store, fs, created, queue, redelivered, api, ex,
                   CELERY_AVAILABLE, S3_CONFIGURED, redis_client>>

\* cleanup_expired_tasks, first statement of the loop body:
\* task_key_byte.decode('utf-8').  The client is built with
\* decode_responses=True, so keys() returns str and the call raises
\* AttributeError outside the per-task try: the sweep ends there.
SweepDecodeError ==
    /\ Sent
    /\ reaper.pc = "loop"
    /\ reaper.keys # {}
    /\ reaper' = ReaperIdle
    /\ UNCHANGED <<now, store, fs, created, queue, redelivered, api, ex,
                   CELERY_AVAILABLE, S3_CONFIGURED, redis_client>>

\* the sweep's state after the iteration for key t, which ended with
\* current_task_failed_deletions = failed
Handled(t, failed, removed) ==
    [reaper EXCEPT !.keys = @ \ {t},
                   !.failed = [k \in DOMAIN @ \cup {t} |->
                                 IF k = t THEN failed ELSE @[k]],
                   !.cleaned = IF removed THEN @ \cup {t} ELSE @]

\* a missing key treated as an expired task: its files are purged
SweepMissingKeyPurge(t) ==
    /\ reaper' = Handled(t, 0, FALSE)
    /\ fs' = [fs EXCEPT ![t] = {}]
    /\ store' = store

\* cleanup_expired_tasks: `if not raw_metadata: continue`
SweepMissingKey(t) ==
    /\ reaper' = Handled(t, 0, FALSE)
    /\ UNCHANGED <<store, fs>>

\* an os.rmdir that raises only for the error injected, and removes a
\* directory that still holds files
RmdirRaisesOnlyOnError(tried, empty, rmdirFails) == tried /\ empty /\ rmdirFails

\* cleanup_expired_tasks: os.rmdir(task_specific_dir) raises OSError when the
\* directory is not empty, or for another reason (rmdirFails)
RmdirRaises(tried, empty, rmdirFails) == tried /\ (~empty \/ rmdirFails)

\* cleanup_expired_tasks, one iteration of the loop for a client that hands
\* the keys back as bytes; os.remove raises OSError for the files in
\* undeletable, os.rmdir of the empty directory raises when rmdirFails
SweepTask(t, undeletable, rmdirFails) ==
    /\ Sent
    /\ reaper.pc = "loop"
    /\ t \in reaper.keys
    /\ IF ~RedisHas(store, t)
       THEN SweepMissingKey(t)
       ELSE LET md == store[t]
                ts == ReaperTimestamp(md)
            IN IF ReaperSkips(ts, now)
               THEN /\ reaper' = Handled(t, 0, FALSE)
                    /\ UNCHANGED <<store, fs>>
               ELSE LET targets == ReaperTargets(md)
                        present == targets \cap fs[t]
                        errored == present \cap undeletable
                        left == fs[t] \ (present \ errored)
                        \* the directory step
                        hasDir == "dir" \in left
                        empty == InDir(left) = {}
                        remaining == InDir(left) \cap targets
                        rmdirTried == hasDir /\ (empty \/ remaining = {})
                        rmdirRaises == RmdirRaises(rmdirTried, empty, rmdirFails)
                        failed == Cardinality(errored)
                                  + (IF rmdirRaises THEN 1 ELSE 0)
                    IN /\ reaper' = Handled(t, failed, ReaperDeletesKey(failed))
                       /\ fs' = [fs EXCEPT ![t] =
                                   IF rmdirTried /\ ~rmdirRaises
                                   THEN left \ {"dir"} ELSE left]
                       /\ store' = IF ReaperDeletesKey(failed)
                                   THEN RedisDelete(store, t) ELSE store
    /\ UNCHANGED <<now, created, queue, redelivered, api, ex,
                   CELERY_AVAILABLE, S3_CONFIGURED, redis_client>>

\* cleanup_expired_tasks: no key was listed, or the loop is over and the
\* summary is returned
SweepEnd ==
    /\ Sent
    /\ reaper.pc = "loop"
    /\ reaper.keys = {}
    /\ reaper' = [pc |-> "idle", cleaned |-> reaper.cleaned]
    /\ UNCHANGED <<now, store, fs, created, queue, redelivered, api, ex,
                   CELERY_AVAILABLE, S3_CONFIGURED, redis_client>>

\* ---------------------------------------------------------- specifications
Dispatcher ==
    \/ \E t \in TaskIds, c \in Clients, s3 \in SinkPaths, ty \in TaskTypes,
          delayRaises \in BOOLEAN : Ingress(t, c, s3, ty, delayRaises)
    \/ DispatchDelay
    \/ DispatchGet
    \/ DispatchSet

Executor ==
    \/ \E t \in TaskIds : ExStart(t)
    \/ \E t \in TaskIds : ExUpdateSet(t)
    \/ \E t \in TaskIds, ok \in BOOLEAN : ExMkdir(t, ok)
    \/ \E t \in TaskIds, ok \in BOOLEAN : ExRun(t, ok)
    \/ \E t \in TaskIds, kind \in {"json", "md"},
          outcome \in {"ok", "open_fails", "write_fails"} :
            ExWrite(t, kind, outcome)
    \/ \E t \in TaskIds : ExPathsGet(t)
    \/ \E t \in TaskIds, j \in BOOLEAN, m \in BOOLEAN : ExUpload(t, j, m)
    \/ \E t \in TaskIds : ExFinalGet(t)
    \/ \E t \in TaskIds : ExAck(t)

Gateway ==
    \/ \E t \in TaskIds, hdr \in Headers : GetTaskStatus(t, hdr)
    \/ \E t \in TaskIds, fmt \in {"json", "md"}, hdr \in Headers :
            DownloadGet(t, fmt, hdr)
    \/ DownloadSet
    \/ \E t \in TaskIds, hdr \in Headers,
          undeletable \in SUBSET {"audio", "json", "md"} :
            Release(t, hdr, undeletable)
    \/ ApiReturn

\* The service as it is configured (decode_responses=True), under
\* at-least-once delivery.  The sweep ends at its first key, so nothing reads
\* a timestamp and the clock is left where it is.
Next ==
    \/ Dispatcher
    \/ Executor
    \/ \E t \in TaskIds : WorkerLost(t)
    \/ Gateway
    \/ SweepStart
    \/ SweepDecodeError
    \/ SweepEnd

Spec == Init /\ [][Next]_vars

\* The service as it is configured, with the clock, every delivery handled
\* once.
NextClock ==
    \/ Tick
    \/ Dispatcher
    \/ Executor
    \/ Gateway
    \/ SweepStart
    \/ SweepDecodeError
    \/ SweepEnd

SpecClock == Init /\ [][NextClock]_vars

\* The service with a store client that returns the keys as bytes, the one
\* configuration in which the body of the Reaper's loop runs; with the clock,
\* every delivery handled once.
NextBytesKeys ==
    \/ Tick
    \/ Dispatcher
    \/ Executor
    \/ Gateway
    \/ SweepStart
    \/ \E t \in TaskIds, undeletable \in SUBSET {"audio", "json", "md"},
          rmdirFails \in BOOLEAN : SweepTask(t, undeletable, rmdirFails)
    \/ SweepEnd

SpecBytesKeys == Init /\ [][NextBytesKeys]_vars

\* characters of an s3_results_path given to an ingress call
PathChars == {"a", "/", "."}

\* the s3_results_path strings given to the ingress calls, "" for none
SinkPathInputs ==
    UNION {[1..n -> PathChars] : n \in 0..MaxPathLen}

\* The ingress calls of the three endpoints, accepted and rejected, for two
\* task ids; the calls are served one after the other by the API process.
NextIngress ==
    \/ \E t \in IngressTaskIds, c \in Clients, s3 \in SinkPaths,
          ty \in TaskTypes, delayRaises \in BOOLEAN :
            Ingress(t, c, s3, ty, delayRaises)
    \/ DispatchDelay
    \/ DispatchGet
    \/ DispatchSet
    \/ \E endpoint \in {"transcribe", "transcribe_url", "transcribe_s3"},
          hdr \in Headers, wav \in BOOLEAN, path \in SinkPathInputs :
            IngressRejected(endpoint, hdr, wav, path)
    \/ \E t \in IngressTaskIds, c \in Clients, s3 \in SinkPaths,
          wav \in BOOLEAN : S3IngressFetch(t, c, s3, wav)
    \/ \E removeFails \in BOOLEAN, delayRaises \in BOOLEAN :
            S3IngressCheck(removeFails, delayRaises)
    \/ \E t \in IngressTaskIds, endpoint \in {"transcribe_url", "transcribe_s3"},
          c \in Clients, s3 \in SinkPaths,
          cause \in {"timeout", "http_error", "request_error", "NoSuchKey",
                     "NoSuchBucket", "ClientError", "credentials", "other"} :
            FetchFails(t, endpoint, c, s3, cause)
    \/ \E t \in IngressTaskIds, hdr \in Headers : GetTaskStatus(t, hdr)
    \/ ApiReturn

SpecIngress == InitTasks(IngressTaskIds, {TRUE}) /\ [][NextIngress]_vars

\* The API process with and without a store client: the ingress calls and the
\* gateway and monitoring calls, for two task ids, no worker running.
NextStoreDown ==
    \/ \E t \in IngressTaskIds, c \in Clients, s3 \in SinkPaths,
          ty \in TaskTypes, delayRaises \in BOOLEAN :
            Ingress(t, c, s3, ty, delayRaises)
    \/ DispatchDelay
    \/ DispatchGet
    \/ DispatchSet
    \/ \E t \in IngressTaskIds, hdr \in Headers : GetTaskStatus(t, hdr)
    \/ \E t \in IngressTaskIds, fmt \in {"json", "md"}, hdr \in Headers :
            DownloadGet(t, fmt, hdr)
    \/ \E t \in IngressTaskIds, hdr \in Headers,
          undeletable \in SUBSET {"audio", "json", "md"} :
            Release(t, hdr, undeletable)
    \/ GetQueueStatus
    \/ ApiReturn

SpecStoreDown ==
    InitTasks(IngressTaskIds, BOOLEAN) /\ [][NextStoreDown]_vars

\* ------------------------------------------------------------------ names
\* The strings a client chooses (client_id, the uploaded file's name,
\* s3_results_path) as sequences of characters, and the names the service
\* derives from them.  A task id, a fixed prefix or an extension is one element
\* of the sequence; None and the empty string, which the code's truth tests
\* do not tell apart, are both << >>.

\* longest file name given to an ingress call
MaxNameLen == 3
\* longest client_id given to an ingress call
MaxClientIdLen == 2
\* safe_filename[:100]
NAME_LIMIT == 100

\* characters of a file name: a letter, the dot, the path separator
NameChars == {"a", ".", "/"}
\* characters of a client_id: a letter, the dot, the underscore
ClientIdChars == {"a", ".", "_"}

\* the file names given to the ingress calls
FileNameInputs == UNION {[1..n -> NameChars] : n \in 0..MaxNameLen}
\* the client_id headers given to the ingress calls
ClientIdInputs == UNION {[1..n -> ClientIdChars] : n \in 1..MaxClientIdLen}

\* c.isalnum() for every character of the element: the letter, and the
\* default name "transcription"
IsAlnum(el) == el \in {"a", "transcription"}

\* the element is made of characters that are alphanumeric or in kept; the
\* extensions ".json" and ".md" are a dot and letters
IsKept(el, kept) ==
    IsAlnum(el) \/ el \in kept \/ (el \in {".json", ".md"} /\ "." \in kept)

\* "".join(c if c.isalnum() or c in kept else '_' for c in name)
Sanitized(name, kept) ==
    [i \in 1..Len(name) |-> IF IsKept(name[i], kept) THEN name[i] ELSE "_"]

\* name[:n]
Truncated(name, n) == IF Len(name) > n THEN SubSeq(name, 1, n) ELSE name

\* a sanitize_filename that returns the name as it was given
SanitizeKeepsAll(filename, default) ==
    IF filename = << >> THEN default ELSE filename

\* sanitize_filename
sanitize_filename(filename, default) ==
    LET safe_filename == Truncated(Sanitized(filename, {".", "_"}), NAME_LIMIT)
    IN IF safe_filename = << >> THEN default ELSE safe_filename

\* os.path.basename
Basename(path) ==
    IF \E i \in 1..Len(path) : path[i] = "/"
    THEN SubSeq(path,
                1 + CHOOSE i \in 1..Len(path) :
                        /\ path[i] = "/"
                        /\ \A j \in (i + 1)..Len(path) : path[j] # "/",
                Len(path))
    ELSE path

\* os.path.join(a, b)
PathJoin(a, b) ==
    IF b # << >> /\ b[1] = "/" THEN b ELSE a \o <<"/">> \o b

\* transcribe_file: audio_file_path
AudioFilePath(t, filename) ==
    PathJoin(<<"/app/cache">>,
             <<t, "_">> \o sanitize_filename(filename, <<"uploaded_audio.wav">>))

\* transcribe_audio_task: safe_original_filename_part
safe_original_filename_part(original_filename) ==
    Truncated(Sanitized(IF original_filename = << >> THEN <<"transcription">>
                        ELSE original_filename, {".", "_", "-"}),
              NAME_LIMIT)

\* transcribe_audio_task: output_json_filename_relative and
\* output_md_filename_relative (ext: ".json" or ".md")
OutputFilenameRelative(t, original_filename, ext) ==
    PathJoin(<<t>>, <<t, "_">> \o safe_original_filename_part(original_filename)
                    \o <<ext>>)

\* upload_to_s3: s3_key
s3_key(client_id, s3_object_path_suffix) ==
    <<"transcriber", "/">> \o Sanitized(client_id, {"_", "-"}) \o <<"/">>
    \o Sanitized(s3_object_path_suffix, {"/", ".", "_", "-"})

\* upload_to_s3: the s3_url it returns, None when the upload failed
S3Url(ok, client_id, s3_object_path_suffix) ==
    IF ok THEN <<"s3://bucket/">> \o s3_key(client_id, s3_object_path_suffix)
    ELSE << >>

\* transcribe_file with the strings of the request, accepted: client_id is
\* given, validate_s3_settings returns, a fresh task id, the upload saved as
\* audio_file_path, then create_and_dispatch_transcription and
\* dispatch_transcription_task with no step of another process in between
IngressNames(t, c, filename, path, delayRaises) ==
    LET mode == EnqueueMode(CELERY_AVAILABLE, delayRaises)
        metadata == [InitialMetadata(c, path, "file_upload", now) EXCEPT
                        !.saved_filename = Basename(AudioFilePath(t, filename))]
    IN /\ api.op = "idle"
       /\ c # << >>
       /\ validate_s3_settings(path, S3_CONFIGURED) = 200
       /\ t \notin DOMAIN created
       /\ fs[t] = {}
       /\ fs' = [fs EXCEPT ![t] = @ \cup {"audio"}]
       /\ created' = [k \in DOMAIN created \cup {t} |->
                        IF k = t THEN [client_id |-> c, s3_results_path |-> path,
                                       original_filename |-> filename,
                                       task_type |-> "file_upload",
                                       enqueue |-> mode,
                                       delay_calls |-> DelayCalls(mode)]
                        ELSE created[k]]
       /\ store' = RedisSet(store, t, DispatchUpdate(metadata, mode, now))
       /\ queue' = [queue EXCEPT ![t] = IF mode = "ok" THEN @ + 1 ELSE @]
       /\ UNCHANGED <<now, redelivered, api, ex, reaper, CELERY_AVAILABLE,
                      S3_CONFIGURED, redis_client>>

\* transcribe_audio_task with the strings of the work unit, for a handling in
\* which nothing raises and no other process writes the record: the four
\* update_redis_metadata calls, the two artifacts written, and the uploads
\* when a sink was requested (jsonOk, mdOk: upload_file returns)
ExNames(t, jsonOk, mdOk) ==
    LET a == created[t]
        sink == a.s3_results_path # << >>
        ju == S3Url(jsonOk, a.client_id, a.s3_results_path \o <<".json">>)
        mu == S3Url(mdOk, a.client_id, a.s3_results_path \o <<".md">>)
        md1 == UpdatedMetadata(GetOrEmpty(store, t), ProcessingUpdates(now), now)
        md2 == UpdatedMetadata(md1,
                   [transcribed_json_file |->
                        OutputFilenameRelative(t, a.original_filename, ".json"),
                    transcribed_md_file |->
                        OutputFilenameRelative(t, a.original_filename, ".md")],
                   now)
        md3 == IF sink
               THEN UpdatedMetadata(md2, [s3_json_url |-> ju, s3_md_url |-> mu],
                                    now)
               ELSE md2
        final == FinalUpdates(IF sink THEN "sink" ELSE "None",
                              IF ju # << >> THEN "url" ELSE "None",
                              IF mu # << >> THEN "url" ELSE "None", now)
    IN /\ Sent
       /\ queue[t] > 0
       /\ queue' = [queue EXCEPT ![t] = @ - 1]
       /\ fs' = [fs EXCEPT ![t] = @ \cup {"dir", "json", "md"}]
       /\ store' = RedisSet(store, t, UpdatedMetadata(md3, final, now))
       /\ UNCHANGED <<now, created, redelivered, api, ex, reaper,
                      CELERY_AVAILABLE, S3_CONFIGURED, redis_client>>

\* One upload with every file name and every s3_results_path, accepted or
\* rejected, and its handling by the worker.
NextNames ==
    \/ \E t \in TaskIds, filename \in FileNameInputs, path \in SinkPathInputs,
          delayRaises \in BOOLEAN :
            IngressNames(t, <<"a">>, filename, path, delayRaises)
    \/ \E hdr \in Headers, wav \in BOOLEAN, path \in SinkPathInputs :
            IngressRejected("transcribe", hdr, wav, path)
    \/ ApiReturn
    \/ \E t \in TaskIds, jsonOk \in BOOLEAN, mdOk \in BOOLEAN :
            ExNames(t, jsonOk, mdOk)

SpecNames == Init /\ [][NextNames]_vars

\* the s3_results_path strings of the uploads of two clients
SuffixInputs == {path \in SinkPathInputs : Len(path) <= 1}

\* Two uploads with every client_id, with and without a sink, and their
\* handling by the worker.
NextKeys ==
    \/ \E t \in IngressTaskIds, c \in ClientIdInputs, path \in SuffixInputs,
          delayRaises \in BOOLEAN :
            IngressNames(t, c, <<"a">>, path, delayRaises)
    \/ \E t \in IngressTaskIds, jsonOk \in BOOLEAN, mdOk \in BOOLEAN :
            ExNames(t, jsonOk, mdOk)

SpecKeys == InitTasks(IngressTaskIds, {TRUE}) /\ [][NextKeys]_vars

\* ------------------------------------------------------------------ claims
\* the step is a write of the Dispatcher (dispatch_transcription_task) or a
\* step of the Executor
DispatcherWrites == api.op = "dispatch" /\ api.pc = "set" /\ api'.op = "respond"
ExecutorSteps(t) == ex'[t] # ex[t]
ReaperSteps == reaper' # reaper

\* the step serves the gateway request req for task t with header hdr
Served(req, t, hdr) ==
    /\ api.op = "idle"
    /\ \/ api'.op = "respond" /\ api'.req = req /\ api'.task = t /\ api'.hdr = hdr
       \/ req = "download" /\ api'.op = "download" /\ api'.task = t /\ api'.hdr = hdr

\* C1: no write of the Dispatcher or of the Executor moves a record's status
\* backward in PENDING_UPLOADED/PENDING_DOWNLOADED < PENDING_CELERY_DISPATCH <
\* PROCESSING < terminal; in particular the Dispatcher's PENDING_CELERY_DISPATCH
\* never replaces PROCESSING or a terminal status.
C1_StatusNeverMovesBackward ==
    [][\A t \in TaskIds :
         (DispatcherWrites \/ ExecutorSteps(t))
         /\ RedisHas(store, t) /\ RedisHas(store', t)
         => Rank(store'[t].status) >= Rank(store[t].status)]_vars

\* C2: once a record's status is terminal, no step of the Executor (a second
\* handling of the same work unit included) changes it.
C2_TerminalStatusIsFinal ==
    [][\A t \in TaskIds :
         ExecutorSteps(t)
         /\ RedisHas(store, t) /\ store[t].status \in TerminalStates
         /\ RedisHas(store', t)
         => store'[t].status = store[t].status]_vars

\* C3: when the Reaper's handling of a task ends with at least one failed
\* deletion (a file or the directory), the task's record is still in the store.
C3_FailedDeletionKeepsRecord ==
    [][\A t \in TaskIds :
         /\ reaper.pc = "loop" /\ reaper'.pc = "loop"
         /\ t \in reaper.keys /\ t \notin reaper'.keys
         /\ RedisHas(store, t)
         /\ reaper'.failed[t] > 0
         => RedisHas(store', t) /\ store'[t] = store[t]]_vars

\* C3 witness: a sweep has handled an expired task, a deletion raised, and the
\* record is still there
C3_Witness ==
    /\ reaper.pc = "loop"
    /\ \E t \in DOMAIN reaper.failed :
          reaper.failed[t] > 0 /\ RedisHas(store, t)

\* the task is COMPLETED and its selected timestamp is older than the window
ExpiredCompleted(t) ==
    /\ RedisHas(store, t)
    /\ store[t].status = "COMPLETED"
    /\ ReaperTimestamp(store[t]) # NoTime
    /\ Expired(ReaperTimestamp(store[t]), now)

\* C4: a sweep does not end leaving behind a listed COMPLETED task whose
\* timestamp is older than the retention window and none of whose deletions
\* failed: its record is deleted and its files are removed.
C4_SweepCleansExpiredCompleted ==
    [][reaper.pc = "loop" /\ reaper'.pc = "idle"
       => \A t \in reaper.listed :
            ExpiredCompleted(t)
            /\ (t \in DOMAIN reaper.failed => reaper.failed[t] = 0)
            => ~RedisHas(store', t) /\ fs'[t] = {}]_vars

\* C5: a step of the Reaper changes neither the store nor the files of a task
\* whose key is absent, so a second sweep is a no-op for every task the first
\* sweep fully cleaned.
C5_SweepIdempotent ==
    [][\A t \in TaskIds :
         ReaperSteps /\ ~RedisHas(store, t)
         => ~RedisHas(store', t) /\ fs'[t] = fs[t]]_vars

\* C5 witness: a second sweep is running after the previous one removed the
\* record and every file of a task
C5_Witness ==
    /\ reaper.pc = "loop"
    /\ \E t \in reaper.before :
          ~RedisHas(store, t) /\ fs[t] = {} /\ t \notin reaper.listed

C7_ReleaseDeletesKeyIffNoError ==
    api.op = "respond" /\ api.req = "release" /\ api.code = 200
    => /\ api.redis_key_deleted <=> api.errors_deleting_files = {}
       /\ api.redis_key_deleted <=> ~RedisHas(store, api.task)

\* C7 witness: a release in which a deletion errored: the record is retained
\* and the response says so
C7_Witness ==
    /\ api.op = "respond" /\ api.req = "release" /\ api.code = 200
    /\ api.errors_deleting_files # {}
    /\ ~api.redis_key_deleted
    /\ RedisHas(store, api.task)

C9_DownloadRefusedForSinkTasks ==
    [][\A t \in TaskIds, hdr \in Headers :
         Served("download", t, hdr) /\ RedisHas(store, t)
         /\ store[t].s3_results_path # "None"
         => /\ api'.op = "respond" /\ api'.code \in {400, 403}
            /\ store' = store]_vars

\* C9 witness: an artifact read of a COMPLETED task with a sink, refused
C9_Witness ==
    /\ api.op = "respond" /\ api.req = "download" /\ api.code = 400
    /\ RedisHas(store, api.task)
    /\ store[api.task].s3_results_path # "None"
    /\ store[api.task].status = "COMPLETED"

\* C10: the write of a successful artifact read changes exactly one field of
\* the record as it is in the store at that moment, last_download_time.
C10_DownloadStampsOneField ==
    [][api.op = "download" /\ api'.op = "respond"
       => /\ RedisHas(store, api.task)
          /\ store' = RedisSet(store, api.task,
                               [store[api.task] EXCEPT !.last_download_time = now])]_vars

\* C11: in every reachable state, a record whose status is COMPLETED or
\* COMPLETED_WITH_S3_UPLOAD_FAILURES has both artifact path fields set.
C11_CompletedHasArtifactPaths ==
    \A t \in DOMAIN store :
        store[t].status \in CompletedStates
        => /\ store[t].transcribed_json_file # "None"
           /\ store[t].transcribed_md_file # "None"

\* the final status the uploads of a run call for
ExpectedFinalStatus(t) ==
    IF created[t].s3_results_path = "None"
       \/ (ex[t].s3_json_url # "None" /\ ex[t].s3_md_url # "None")
    THEN "COMPLETED"
    ELSE "COMPLETED_WITH_S3_UPLOAD_FAILURES"

\* C12: the final write of a run whose pipeline and artifact writes succeeded
\* stores COMPLETED when no sink was requested or both uploads returned a URL,
\* and COMPLETED_WITH_S3_UPLOAD_FAILURES otherwise; from the uploads on, the
\* run never takes the failure branch.
C12_FinalStatusFollowsUploads ==
    [][\A t \in TaskIds :
         /\ ex[t].pc = "final_set" /\ ex'[t].pc = "ack"
            => /\ RedisHas(store', t)
               /\ store'[t].status = ExpectedFinalStatus(t)
         /\ ex[t].pc \in {"upload", "s3_set", "final_get", "final_set"}
            => ex'[t].pc # "fail_set"]_vars

\* C12 witness: a run has ended after one upload succeeded and the other
\* failed, and the record says COMPLETED_WITH_S3_UPLOAD_FAILURES
C12_Witness ==
    \E t \in TaskIds :
        /\ ex[t].pc = "ack"
        /\ ex[t].s3_json_url # "None" /\ ex[t].s3_md_url = "None"
        /\ RedisHas(store, t)
        /\ store[t].status = "COMPLETED_WITH_S3_UPLOAD_FAILURES"

C14_HandlerEndsTerminal ==
    [][\A t \in TaskIds :
         ex[t].pc = "ack" /\ ex'[t].pc = "idle" /\ RedisHas(store, t)
         => store[t].status # "PROCESSING"]_vars

\* the Dispatcher call for t is over, its enqueue succeeded, and no worker has
\* picked the work unit up
EnqueuedNotPickedUp(t) ==
    /\ t \in DOMAIN created
    /\ created[t].enqueue = "ok"
    /\ ~(api.op = "dispatch" /\ api.task = t)
    /\ queue[t] > 0
    /\ redelivered[t] = 0

\* C15: after a Dispatcher call whose enqueue succeeded and before the pickup,
\* the task's record has status PENDING_CELERY_DISPATCH and the celery_task_id
\* returned by the enqueue.
C15_DispatchedRecordBeforePickup ==
    \A t \in DOMAIN created :
        EnqueuedNotPickedUp(t) /\ RedisHas(store, t)
        => /\ store[t].status = "PENDING_CELERY_DISPATCH"
           /\ store[t].celery_task_id = "celery-id"

\* C15 witness: the call has returned, the work unit waits in the queue
C15_Witness ==
    /\ api.op = "idle"
    /\ \E t \in DOMAIN created :
          /\ EnqueuedNotPickedUp(t)
          /\ RedisHas(store, t)
          /\ store[t].celery_dispatch_time # NoTime

\* C16: when the enqueue attempt fails, the Dispatcher's write marks the record
\* FAILED with an error_message, nothing is enqueued for the task, no worker
\* ever handles it, and its record shows FAILED from then on.
C16_FailedEnqueueIsFinal ==
    [][/\ api.op = "dispatch" /\ api.pc = "set" /\ api.mode # "ok"
          /\ api'.op = "respond"
          => /\ store'[api.task].status = "FAILED"
             /\ store'[api.task].error_message # "None"
       /\ \A t \in DOMAIN created' :
            created'[t].enqueue # "ok"
            => /\ queue'[t] = 0
               /\ ex'[t].pc = "idle"
               /\ (RedisHas(store', t)
                   /\ ~(api'.op = "dispatch" /\ api'.task = t))
                  => store'[t].status = "FAILED"]_vars

\* C16 witness: delay() raised, the call has returned, the record is FAILED
C16_Witness ==
    /\ api.op = "idle"
    /\ \E t \in DOMAIN created :
          /\ created[t].enqueue = "raise"
          /\ RedisHas(store, t)
          /\ store[t].status = "FAILED"
          /\ store[t].error_message = "Failed to dispatch Celery task"

C18_RejectedIngressCreatesNoState ==
    api.op = "respond" /\ api.req = "ingress" /\ api.code # 200
    => \A t \in DOMAIN fs :
          t \notin DOMAIN created
          => fs[t] = {} /\ ~RedisHas(store, t) /\ queue[t] = 0

\* C19: a record's client_id is the owner tag the task was created with.
C19_ClientIdImmutable ==
    \A t \in DOMAIN store :
        t \in DOMAIN created => store[t].client_id = created[t].client_id

\* C20: no step brings back the record of a created task whose key is absent.
C20_DeletedRecordStaysDeleted ==
    [][\A t \in DOMAIN created :
         ~RedisHas(store, t) => ~RedisHas(store', t)]_vars

\* C21: without a store client, status read, artifact read, manual release and
\* queue monitoring answer 503, no work unit is enqueued and no ingress call
\* returns a task id.
C21_StoreDownFailsFast ==
    ~redis_client
    => /\ api.op = "respond" /\ api.req \in {"status", "download", "release", "queue"}
          => api.code = 503
       /\ api.op = "respond" /\ api.req = "ingress" => api.code # 200
       /\ \A t \in DOMAIN queue : queue[t] = 0

\* the record names no file a release would delete
NamesNoFiles(md) ==
    /\ md.saved_filename = "None" \/ md.s3_results_path # "None"
    /\ md.transcribed_json_file = "None"
    /\ md.transcribed_md_file = "None"

\* C22: a release that passes the access checks on a record naming no files
\* answers 200 with zero deleted files, zero missing files and no errors,
\* deletes the record and leaves the cache as it was.
C22_ReleaseWithoutFiles ==
    [][\A t \in TaskIds, hdr \in Headers :
         /\ Served("release", t, hdr)
         /\ RedisHas(store, t)
         /\ hdr = "None" \/ hdr = store[t].client_id
         /\ NamesNoFiles(store[t])
         => /\ api'.code = 200
            /\ api'.deleted_cache_files = 0
            /\ api'.files_not_found_in_cache = 0
            /\ api'.errors_deleting_files = {}
            /\ api'.redis_key_deleted
            /\ ~RedisHas(store', t)
            /\ fs' = fs]_vars

\* C22 witness: a release that found nothing to delete has removed the record
\* of a task whose source audio is still in the cache
C22_Witness ==
    /\ api.op = "respond" /\ api.req = "release" /\ api.code = 200
    /\ api.deleted_cache_files = 0 /\ api.files_not_found_in_cache = 0
    /\ api.redis_key_deleted
    /\ ~RedisHas(store, api.task)
    /\ "audio" \in fs[api.task]

\* the sweep's iteration for key t
SweepHandles(t) ==
    /\ reaper.pc = "loop" /\ reaper'.pc = "loop"
    /\ t \in reaper.keys /\ t \notin reaper'.keys

\* none of the timestamp fields the record's status calls for is present
NoUsableTimestamp(md) ==
    /\ md.last_updated_time = NoTime
    /\ IF md.status = "FAILED" THEN md.processing_end_time = NoTime
       ELSE IF md.status \in CompletedStates
       THEN md.last_download_time = NoTime /\ md.processing_end_time = NoTime
       ELSE /\ md.upload_time = NoTime /\ md.download_time = NoTime
            /\ md.celery_dispatch_time = NoTime

TimestampAsClaimed(md, ts) ==
    IF md.status = "FAILED"
    THEN ts = (IF md.processing_end_time # NoTime THEN md.processing_end_time
               ELSE md.last_updated_time)
    ELSE IF md.status \in CompletedStates
    THEN ts = (IF md.last_download_time # NoTime THEN md.last_download_time
               ELSE IF md.processing_end_time # NoTime
               THEN md.processing_end_time
               ELSE md.last_updated_time)
    ELSE LET three == {md.celery_dispatch_time, md.upload_time,
                       md.download_time} \ {NoTime}
         IN IF three # {} THEN ts \in three ELSE ts = md.last_updated_time

\* C24: for every record in the store, the timestamp the Reaper selects is the
\* one the priority rules of the record's status give.
C24_TimestampByStatus ==
    \A t \in DOMAIN store :
        TimestampAsClaimed(store[t], ReaperTimestamp(store[t]))

\* C24 witness: a sweep has passed over a COMPLETED task whose end time is
\* older than the window and whose last download is not: the record is kept
C24_Witness ==
    /\ reaper.pc = "loop"
    /\ \E t \in reaper.listed \ reaper.keys :
          /\ RedisHas(store, t)
          /\ store[t].status = "COMPLETED"
          /\ store[t].last_download_time # NoTime
          /\ now - store[t].processing_end_time > CACHE_EXPIRY_SECONDS
          /\ now - store[t].last_download_time <= CACHE_EXPIRY_SECONDS

\* C25: the sweep's iteration for a task whose age does not strictly exceed
\* the retention window changes neither its record nor its files.
C25_FreshTaskUntouched ==
    [][\A t \in TaskIds :
         /\ SweepHandles(t) /\ RedisHas(store, t)
         /\ ReaperTimestamp(store[t]) # NoTime
         /\ now - ReaperTimestamp(store[t]) <= CACHE_EXPIRY_SECONDS
         => /\ RedisHas(store', t) /\ store'[t] = store[t]
            /\ fs'[t] = fs[t]]_vars

\* C25 witness: a sweep has passed over a task whose age is exactly the
\* retention window; record and files are there
C25_Witness ==
    /\ reaper.pc = "loop"
    /\ \E t \in reaper.listed \ reaper.keys :
          /\ RedisHas(store, t)
          /\ ReaperTimestamp(store[t]) # NoTime
          /\ now - ReaperTimestamp(store[t]) = CACHE_EXPIRY_SECONDS
          /\ fs[t] # {}

\* C26: a gateway request without owner tag on an existing task is never
\* answered 403, and its access check gives what the check of a request
\* carrying the record's client_id gives.
C26_NoTagIsNeverDenied ==
    [][\A req \in {"status", "download", "release"}, t \in TaskIds :
         Served(req, t, "None") /\ RedisHas(store, t)
         => /\ api'.op = "respond" => api'.code # 403
            /\ store[t].client_id \in Clients
               => AccessCheck(store, t, "None")
                  = AccessCheck(store, t, store[t].client_id)]_vars

\* C26 witness: a status read without owner tag of alice's task, answered 200
C26_Witness ==
    /\ api.op = "respond" /\ api.req = "status" /\ api.code = 200
    /\ api.hdr = "None"
    /\ RedisHas(store, api.task)
    /\ store[api.task].client_id = "alice"

\* the fields outside written that differ between the two documents
LostFields(old, new, written) ==
    {k \in DOMAIN old : k \notin written /\ new[k] # old[k]}

\* C27: a write of the Dispatcher, of the artifact read or of the Executor
\* changes a field outside its own update only when the record was changed
\* between the writer's read and its write.
C27_WriteLosesOnlyWhenStale ==
    [][\A t \in TaskIds :
         RedisHas(store, t) /\ RedisHas(store', t)
         => /\ (/\ api.op = "dispatch" /\ api.pc = "set" /\ api.task = t
                /\ api'.op = "respond" /\ api.md = store[t])
               => LostFields(store[t], store'[t],
                             {"status", "celery_task_id",
                              "celery_dispatch_time", "error_message"}) = {}
            /\ (/\ api.op = "download" /\ api.task = t
                /\ api'.op = "respond" /\ api.md = store[t])
               => LostFields(store[t], store'[t], {"last_download_time"}) = {}
            /\ (/\ ex[t].pc \in {"proc_set", "paths_set", "s3_set",
                                 "final_set", "fail_set"}
                /\ ex'[t].pc \notin {ex[t].pc, "idle"}
                /\ ex[t].md = store[t])
               => LostFields(store[t], store'[t],
                             DOMAIN ex[t].updates \cup {"last_updated_time"})
                  = {}]_vars

\* C27 witness: the worker's first update (PROCESSING, worker_node) was
\* written and the Dispatcher's write has replaced it: the run is under way
\* and the record shows PENDING_CELERY_DISPATCH and no worker_node
C27_Witness ==
    \E t \in TaskIds :
        /\ ex[t].pc \notin {"idle", "proc_set"}
        /\ redelivered[t] = 0
        /\ RedisHas(store, t)
        /\ store[t].status = "PENDING_CELERY_DISPATCH"
        /\ store[t].worker_node = "None"

\* C28: a release that passes the access checks on a record with
\* s3_results_path set removes at most the two artifact files, leaves the
\* source audio in place, and deletes the record when no deletion errored.
C28_ReleaseKeepsAudioOfSinkTasks ==
    [][\A t \in TaskIds, hdr \in Headers :
         /\ Served("release", t, hdr) /\ api'.code = 200
         /\ RedisHas(store, t)
         /\ store[t].s3_results_path # "None"
         => /\ fs[t] \ fs'[t] \subseteq {"json", "md"}
            /\ "audio" \in fs[t] => "audio" \in fs'[t]
            /\ api'.errors_deleting_files = {} => ~RedisHas(store', t)]_vars

\* C28 witness: a release of a sink task has deleted both artifacts and the
\* record; the source audio is still in the cache
C28_Witness ==
    /\ api.op = "respond" /\ api.req = "release" /\ api.code = 200
    /\ api.deleted_cache_files = 2
    /\ api.redis_key_deleted
    /\ api.task \in DOMAIN created
    /\ created[api.task].s3_results_path # "None"
    /\ "audio" \in fs[api.task]
    /\ ~RedisHas(store, api.task)

\* C29: when an ingress call that drew a task id is answered with an error,
\* nothing is enqueued for that id and a record for it, if there is one, is
\* FAILED.
C29_FailedFetchLeavesNoLiveRecord ==
    (api.op = "respond" /\ api.req = "ingress" /\ api.code # 200
     /\ api.task # "None")
    => /\ queue[api.task] = 0
       /\ RedisHas(store, api.task) => store[api.task].status = "FAILED"

\* C29 witness: a URL ingress whose download timed out: 408, no record, no
\* file, nothing enqueued
C29_Witness ==
    /\ api.op = "respond" /\ api.req = "ingress" /\ api.code = 408
    /\ api.task # "None"
    /\ ~RedisHas(store, api.task)
    /\ fs[api.task] = {}

\* C30: the record an accepted ingress call writes has status PENDING_UPLOADED
\* for file_upload and PENDING_DOWNLOADED otherwise, the caller's client_id,
\* task_type, s3_results_path, the saved file name and the upload or download
\* time; the work unit is enqueued only after that write.
C30_InitialRecord ==
    [][/\ \A t \in DOMAIN created' \ DOMAIN created :
            /\ RedisHas(store', t)
            /\ store'[t].status =
                 (IF created'[t].task_type = "file_upload"
                  THEN "PENDING_UPLOADED" ELSE "PENDING_DOWNLOADED")
            /\ store'[t].client_id = created'[t].client_id
            /\ store'[t].task_type = created'[t].task_type
            /\ store'[t].s3_results_path = created'[t].s3_results_path
            /\ store'[t].saved_filename # "None"
            /\ (IF created'[t].task_type = "file_upload"
                THEN store'[t].upload_time ELSE store'[t].download_time) = now
            /\ queue'[t] = 0
       /\ \A t \in DOMAIN queue :
            queue'[t] > queue[t] => t \in DOMAIN created /\ RedisHas(store, t)]_vars

\* C30 witness: the initial record of an s3_download task is in the store and
\* the work unit is not enqueued yet
C30_Witness ==
    /\ api.op = "dispatch" /\ api.pc = "delay"
    /\ RedisHas(store, api.task)
    /\ store[api.task].status = "PENDING_DOWNLOADED"
    /\ store[api.task].task_type = "s3_download"
    /\ queue[api.task] = 0

\* C31: a queue monitoring call that is served with a store client reports as
\* total_tracked_tasks the number of task keys in the store and as
\* active_tasks_in_queue the number of those whose status is PENDING_UPLOADED,
\* PENDING_DOWNLOADED, PENDING_CELERY_DISPATCH, PROCESSING or RETRYING, which
\* is never more than the total.
C31_QueueCounts ==
    [][api.op = "idle" /\ api'.op = "respond" /\ api'.req = "queue"
       /\ api'.code = 200
       => /\ api'.total_tracked_tasks = Cardinality(DOMAIN store)
          /\ api'.active_tasks_in_queue =
               Cardinality({t \in DOMAIN store :
                   store[t].status \in {"PENDING_UPLOADED", "PENDING_DOWNLOADED",
                                        "PENDING_CELERY_DISPATCH", "PROCESSING",
                                        "RETRYING"}})
          /\ api'.active_tasks_in_queue <= api'.total_tracked_tasks]_vars

\* C31 witness: a report over two tracked tasks, one of them active and the
\* other failed by the Dispatcher
C31_Witness ==
    /\ api.op = "respond" /\ api.req = "queue" /\ api.code = 200
    /\ api.total_tracked_tasks = 2
    /\ api.active_tasks_in_queue = 1
    /\ \E t \in DOMAIN store : store[t].status = "FAILED"

\* C32: no record in the store has status RETRYING.
C32_RetryingUnreachable ==
    \A t \in DOMAIN store : store[t].status # "RETRYING"

\* C32 witness: the work unit was delivered a second time and the handler of
\* the second delivery has written its first update: the record shows
\* PROCESSING
C32_Witness ==
    \E t \in DOMAIN store :
        /\ redelivered[t] > 0
        /\ ex[t].pc = "mkdir"
        /\ store[t].status = "PROCESSING"

\* the artifact files the handler running for t has not written yet
NotYetWritten(t) ==
    CASE ex[t].pc \in {"proc_set", "mkdir", "run", "write_json"} -> {"json", "md"}
      [] ex[t].pc = "write_md" -> {"md"}
      [] OTHER -> {}

\* C33: while a handler runs for a task, the task's record names no artifact
\* path whose file that handler has not written yet; and the record of a task
\* created without a sink never has an upload location.
C33_PathsOnlyAfterFiles ==
    \A t \in DOMAIN store :
        /\ "json" \in NotYetWritten(t) => store[t].transcribed_json_file = "None"
        /\ "md" \in NotYetWritten(t) => store[t].transcribed_md_file = "None"
        /\ t \in DOMAIN created /\ created[t].s3_results_path = "None"
           => store[t].s3_json_url = "None" /\ store[t].s3_md_url = "None"

\* C34: a sweep ends only when it has examined every key it listed.
C34_SweepExaminesEveryKey ==
    [][reaper.pc = "loop" /\ reaper'.pc = "idle" => reaper.keys = {}]_vars

\* C35: when a record is in a terminal status, every artifact file of the
\* task that exists in the cache is named by the record.
C35_ArtifactsAreReferenced ==
    \A t \in DOMAIN store :
        store[t].status \in TerminalStates
        => /\ "json" \in fs[t] => store[t].transcribed_json_file = "json"
           /\ "md" \in fs[t] => store[t].transcribed_md_file = "md"

\* the artifact files of t in the cache that the record does not name
Unnamed(md, files) == InDir(files) \ ReaperTargets(md)

\* C36: when the sweep cleans an expired task whose directory holds a file the
\* record does not name, the directory stays, the iteration counts a deletion
\* failure and the record is kept.
C36_UnnamedFileKeepsRecord ==
    [][\A t \in DOMAIN store :
         /\ SweepHandles(t)
         /\ ~ReaperSkips(ReaperTimestamp(store[t]), now)
         /\ "dir" \in fs[t]
         /\ Unnamed(store[t], fs[t]) # {}
         => /\ "dir" \in fs'[t]
            /\ Unnamed(store[t], fs[t]) \subseteq fs'[t]
            /\ reaper'.failed[t] > 0
            /\ RedisHas(store', t)
            /\ store'[t] = store[t]]_vars

\* C36 witness: the sweep has cleaned an expired FAILED task whose directory
\* holds an artifact the record does not name: the source audio is gone, the
\* record, the directory and the file are still there
C36_Witness ==
    /\ reaper.pc = "loop"
    /\ \E t \in reaper.listed \ reaper.keys :
          /\ RedisHas(store, t)
          /\ store[t].status = "FAILED"
          /\ now - store[t].processing_end_time > CACHE_EXPIRY_SECONDS
          /\ reaper.failed[t] > 0
          /\ {"dir", "json"} \subseteq fs[t]
          /\ store[t].transcribed_json_file = "None"
          /\ "audio" \notin fs[t]

\* C39: in a release report the deleted files, the files not found and the
\* files whose deletion raised are disjoint groups of the targeted files and
\* together they are all of them, at most three.
C39_ReleaseCountsAddUp ==
    [][\A t \in DOMAIN store, hdr \in Headers :
         /\ Served("release", t, hdr)
         /\ api'.code = 200
         => LET targets == ReleaseTargets(store[t]) IN
            /\ api'.deleted_cache_files = Cardinality(fs[t] \ fs'[t])
            /\ fs[t] \ fs'[t] \subseteq targets
            /\ api'.files_not_found_in_cache = Cardinality(targets \ fs[t])
            /\ api'.errors_deleting_files \subseteq targets \cap fs'[t]
            /\ api'.deleted_cache_files + api'.files_not_found_in_cache
                 + Cardinality(api'.errors_deleting_files)
               = Cardinality(targets)
            /\ Cardinality(targets) <= 3]_vars

\* C39 witness: a release report with one file deleted, one not found and one
\* whose deletion raised
C39_Witness ==
    /\ api.op = "respond" /\ api.req = "release" /\ api.code = 200
    /\ api.deleted_cache_files = 1
    /\ api.files_not_found_in_cache = 1
    /\ Cardinality(api.errors_deleting_files) = 1

\* the task's record holds the object URLs of both artifacts
Uploaded(t) ==
    /\ RedisHas(store, t)
    /\ t \in DOMAIN created
    /\ created[t].s3_results_path # << >>
    /\ store[t].status = "COMPLETED"

\* C37: two tasks of different clients whose artifacts were uploaded have
\* different object URLs, for the JSON and for the Markdown artifact.
C37_KeysNamespacedPerClient ==
    \A t1 \in DOMAIN store, t2 \in DOMAIN store :
        /\ Uploaded(t1) /\ Uploaded(t2)
        /\ created[t1].client_id # created[t2].client_id
        => /\ store[t1].s3_json_url # store[t2].s3_json_url
           /\ store[t1].s3_md_url # store[t2].s3_md_url

\* the path has a segment that is ".."
HasTraversalSegment(path) ==
    \E i \in 1..(Len(path) - 1) :
        /\ path[i] = "." /\ path[i + 1] = "."
        /\ i = 1 \/ path[i - 1] = "/"
        /\ i + 1 = Len(path) \/ path[i + 2] = "/"

\* the number of path separators in the path
Separators(path) == Cardinality({i \in 1..Len(path) : path[i] = "/"})

\* C38: the saved_filename of every record is <task id>_<name> with no path
\* separator; the artifact paths of a completed record are
\* <task id>/<task id>_<name> with that one separator; none of them has a
\* ".." segment; and the s3_results_path of a record neither starts nor ends
\* with "/" nor contains "..".
C38_PathsStayInCache ==
    \A t \in DOMAIN store :
        /\ LET p == store[t].saved_filename IN
             /\ Len(p) >= 3 /\ p[1] = t /\ p[2] = "_"
             /\ Separators(p) = 0
             /\ ~HasTraversalSegment(p)
        /\ store[t].status \in CompletedStates
           => \A p \in {store[t].transcribed_json_file,
                        store[t].transcribed_md_file} :
                /\ Len(p) >= 5 /\ p[1] = t /\ p[2] = "/" /\ p[3] = t /\ p[4] = "_"
                /\ Separators(p) = 1
                /\ ~HasTraversalSegment(p)
        /\ LET p == store[t].s3_results_path IN
             p # << >>
             => /\ p[1] # "/" /\ p[Len(p)] # "/"
                /\ \A i \in 1..(Len(p) - 1) : ~(p[i] = "." /\ p[i + 1] = ".")

\* C38 witness: a task uploaded as "../" with the sink "a/a" has completed
C38_Witness ==
    \E t \in DOMAIN store :
        /\ created[t].original_filename = <<".", ".", "/">>
        /\ store[t].s3_results_path = <<"a", "/", "a">>
        /\ store[t].status \in CompletedStates
        /\ store[t].saved_filename = <<t, "_", ".", ".", "_">>

====
